---------------------------- MODULE Spec2Model ----------------------------
(***************************************************************************)
(* Model of js/series-manager.js: class SeriesManager.                     *)
(*                                                                         *)
(* A JavaScript string is modelled as a sequence of characters.  A         *)
(* character is a one-element token: an ASCII character stands for itself, *)
(* "fw:X" is the full-width form of the ASCII character X, "k:..." is a    *)
(* kanji, "kata:..."/"hira:..." a kana (the tokens are named in ASCII      *)
(* because the module is ASCII).                                           *)
(***************************************************************************)
EXTENDS Integers, Sequences, FiniteSets, TLC

(***************************************************************************)
(* Characters and character classes of the regular expressions.            *)
(***************************************************************************)
Digits == {"0", "1", "2", "3", "4", "5", "6", "7", "8", "9"}

\* \s of a JavaScript regular expression (the members the model uses):
\* space, tab, line feed and the ideographic (full-width) space U+3000.
Whitespace == {" ", "\t", "\n", "fw:sp"}

\* "." does not match a line terminator.
LineTerminators == {"\n"}

AnyChar == [k |-> "any", s |-> {}]
Sp == [k |-> "space", s |-> {}]
Dg == [k |-> "digit", s |-> {}]
NotSp == [k |-> "nonspace", s |-> {}]
NotDgSp == [k |-> "nondigitspace", s |-> {}]
Lit(chars) == [k |-> "set", s |-> chars]

InClass(c, cls) ==
    CASE cls.k = "any" -> c \notin LineTerminators
      [] cls.k = "space" -> c \in Whitespace
      [] cls.k = "digit" -> c \in Digits
      [] cls.k = "nonspace" -> c \notin Whitespace
      [] cls.k = "nondigitspace" -> c \notin Digits /\ c \notin Whitespace
      [] OTHER -> c \in cls.s

(***************************************************************************)
(* An anchored regular expression ^ item item ... $ is a sequence of       *)
(* items: a character class, a repetition min..max, lazy or greedy, and    *)
(* the capture group (0 for none) the item lies in.  Matching backtracks   *)
(* in the order of the JavaScript engine: a lazy item tries the shortest   *)
(* repetition first, a greedy one the longest.                             *)
(***************************************************************************)
\* x, x?, x*, x+, x+?  ("many": the repetition has no upper limit, else it is at most 1)
One(cls, g) == [cls |-> cls, min |-> 1, many |-> FALSE, lazy |-> FALSE, grp |-> g]
Opt(cls, g) == [cls |-> cls, min |-> 0, many |-> FALSE, lazy |-> FALSE, grp |-> g]
Star(cls, g) == [cls |-> cls, min |-> 0, many |-> TRUE, lazy |-> FALSE, grp |-> g]
Plus(cls, g) == [cls |-> cls, min |-> 1, many |-> TRUE, lazy |-> FALSE, grp |-> g]
PlusLazy(cls, g) == [cls |-> cls, min |-> 1, many |-> TRUE, lazy |-> TRUE, grp |-> g]

\* "value" evaluated once and handed to Body (a strict LET)
With(value, Body(_)) == CHOOSE r \in {Body(v) : v \in {value}} : TRUE

NoMatch == [ok |-> FALSE, lens |-> <<>>]

RECURSIVE RunLen(_, _, _, _)
\* the number of consecutive characters of str from pos on that lie in cls
\* (at most one of them unless many)
RunLen(str, pos, cls, many) ==
    IF pos > Len(str) \/ ~InClass(str[pos], cls) THEN 0
    ELSE IF many THEN 1 + RunLen(str, pos + 1, cls, many) ELSE 1

RECURSIVE MatchFrom(_, _, _, _), TryCount(_, _, _, _, _, _)
\* the first match, in backtracking order, of items i.. against str from pos to the end
MatchFrom(items, i, str, pos) ==
    IF i > Len(items) THEN [ok |-> pos = Len(str) + 1, lens |-> <<>>]
    ELSE With(RunLen(str, pos, items[i].cls, items[i].many), LAMBDA run :
             IF run < items[i].min THEN NoMatch
             ELSE TryCount(items, i, str, pos, IF items[i].lazy THEN items[i].min ELSE run, run))

\* item i repeated k times, then the next repetition in backtracking order
TryCount(items, i, str, pos, k, run) ==
    With(MatchFrom(items, i + 1, str, pos + k), LAMBDA rest :
        IF rest.ok THEN [ok |-> TRUE, lens |-> <<k>> \o rest.lens]
        ELSE IF items[i].lazy
             THEN IF k < run THEN TryCount(items, i, str, pos, k + 1, run) ELSE NoMatch
             ELSE IF k > items[i].min THEN TryCount(items, i, str, pos, k - 1, run)
                  ELSE NoMatch)

\* String.prototype.match with an anchored, non-global regular expression
RegexMatch(str, items) == MatchFrom(items, 1, str, 1)

RECURSIVE SumLens(_, _, _)
\* lens[a] + ... + lens[b]
SumLens(lens, a, b) == IF a > b THEN 0 ELSE lens[b] + SumLens(lens, a, b - 1)

\* match[g]: the text captured by group g (the items of a group are adjacent)
Capture(m, items, str, g) ==
    LET members == {j \in 1..Len(items) : items[j].grp = g}
        first == CHOOSE j \in members : \A i \in members : j <= i
        last == CHOOSE j \in members : \A i \in members : i <= j
    IN SubSeq(str, SumLens(m.lens, 1, first - 1) + 1, SumLens(m.lens, 1, last))

(***************************************************************************)
(* String helpers.                                                         *)
(***************************************************************************)
\* str.replace(/[from]/g, to) for a one-character replacement
ReplaceChars(str, from, to) ==
    SubSeq([i \in 1..Len(str) |-> IF str[i] \in from THEN to ELSE str[i]], 1, Len(str))

\* str.replace(/[chars]/g, '')
RemoveChars(str, chars) == SelectSeq(str, LAMBDA c : c \notin chars)

\* str.replace(/\s+/g, ' '): the first character of a run of whitespace becomes
\* a space, the others of the run go
CollapseSpaces(str) ==
    LET marked == [i \in 1..Len(str) |->
                      IF str[i] \notin Whitespace THEN <<str[i]>>
                      ELSE IF i > 1 /\ str[i - 1] \in Whitespace THEN <<>>
                      ELSE <<" ">>]
        kept == SelectSeq(SubSeq(marked, 1, Len(str)), LAMBDA m : m # <<>>)
    IN SubSeq([i \in 1..Len(kept) |-> kept[i][1]], 1, Len(kept))

\* str.replace(/[chars]+$/, '')
StripTrailing(str, chars) ==
    LET kept == {i \in 1..Len(str) : str[i] \notin chars}
    IN IF kept = {} THEN <<>>
       ELSE SubSeq(str, 1, CHOOSE i \in kept : \A j \in kept : j <= i)

\* str.replace(/^[chars]+/, '')
StripLeading(str, chars) ==
    LET kept == {i \in 1..Len(str) : str[i] \notin chars}
    IN IF kept = {} THEN <<>>
       ELSE SubSeq(str, CHOOSE i \in kept : \A j \in kept : i <= j, Len(str))

\* String.prototype.trim
Trim(str) == With(StripTrailing(str, Whitespace), LAMBDA s : StripLeading(s, Whitespace))

\* the full-width letters and digits of the model and their half-width forms
\* (String.fromCharCode(s.charCodeAt(0) - 0xFEE0))
FullWidthAlnum ==
    ("fw:A" :> "A") @@ ("fw:a" :> "a") @@ ("fw:V" :> "V") @@
    ("fw:o" :> "o") @@ ("fw:1" :> "1") @@ ("fw:2" :> "2") @@ ("fw:3" :> "3")

\* str.replace(/[FW_A-FW_Z FW_a-FW_z FW_0-FW_9]/g, ...)
ShiftFullWidth(str) ==
    SubSeq([i \in 1..Len(str) |->
               IF str[i] \in DOMAIN FullWidthAlnum THEN FullWidthAlnum[str[i]] ELSE str[i]],
           1, Len(str))

\* the letters of the model that toLowerCase changes
UpperCase == ("A" :> "a") @@ ("V" :> "v") @@ ("O" :> "o") @@ ("L" :> "l")

ToLowerCase(str) ==
    SubSeq([i \in 1..Len(str) |->
               IF str[i] \in DOMAIN UpperCase THEN UpperCase[str[i]] ELSE str[i]],
           1, Len(str))

DigitValue ==
    ("0" :> 0) @@ ("1" :> 1) @@ ("2" :> 2) @@ ("3" :> 3) @@ ("4" :> 4) @@
    ("5" :> 5) @@ ("6" :> 6) @@ ("7" :> 7) @@ ("8" :> 8) @@ ("9" :> 9)

RECURSIVE ParseInt(_)
\* parseInt(str, 10) of a non-empty string of decimal digits
ParseInt(str) ==
    IF str = <<>> THEN 0
    ELSE 10 * ParseInt(SubSeq(str, 1, Len(str) - 1)) + DigitValue[str[Len(str)]]

(***************************************************************************)
(* normalizeString                                                         *)
(***************************************************************************)
\* the chain of .replace calls after the full-width letters and digits
replacements == <<
    [from |-> {"fw:("}, to |-> "("],
    [from |-> {"fw:)"}, to |-> ")"],
    [from |-> {"fw:[["}, to |-> "["],
    [from |-> {"fw:]]"}, to |-> "]"],
    [from |-> {"fw:["}, to |-> "["],
    [from |-> {"fw:]"}, to |-> "]"],
    [from |-> {"fw:sp"}, to |-> " "],
    [from |-> {"fw::"}, to |-> ":"],
    [from |-> {"fw:;"}, to |-> ";"],
    [from |-> {"fw:-", "bar:2015", "bar:2500", "kata:-", "minus:2212"}, to |-> "-"],
    [from |-> {"fw:~", "wave:301C"}, to |-> "~"],
    [from |-> {"fw:!"}, to |-> "!"],
    [from |-> {"fw:?"}, to |-> "?"],
    [from |-> {"fw:&"}, to |-> "&"],
    [from |-> {"fw:*"}, to |-> "*"],
    [from |-> {"fw:+"}, to |-> "+"],
    [from |-> {"fw:,"}, to |-> ","],
    [from |-> {"fw:."}, to |-> "."]
>>

RECURSIVE ApplyReplacements(_, _)
\* str after the first n replacements
ApplyReplacements(str, n) ==
    IF n = 0 THEN str
    ELSE With(ApplyReplacements(str, n - 1), LAMBDA s :
             ReplaceChars(s, replacements[n].from, replacements[n].to))

normalizeString(str) ==
    IF str = <<>> THEN <<>>
    ELSE With(ShiftFullWidth(str), LAMBDA shifted :
         With(ApplyReplacements(shifted, Len(replacements)), LAMBDA replaced :
         With(CollapseSpaces(replaced), LAMBDA collapsed : Trim(collapsed))))

(***************************************************************************)
(* extractVolumeNumber                                                     *)
(***************************************************************************)
\* volumeNumber: null
NullVolume == -1

\* the priority-ordered pattern list
patterns == <<
    \* /^(.+?)\s*\(?DAI?(\d+)KAN\)?\s*$/
    <<PlusLazy(AnyChar, 1), Star(Sp, 0), Opt(Lit({"("}), 0), Opt(Lit({"k:dai"}), 0), Plus(Dg, 2),
      One(Lit({"k:kan"}), 0), Opt(Lit({")"}), 0), Star(Sp, 0)>>,
    \* /^(.+?)\s+DAI?(\d+)KAN\s*.*$/
    <<PlusLazy(AnyChar, 1), Plus(Sp, 0), Opt(Lit({"k:dai"}), 0), Plus(Dg, 2), One(Lit({"k:kan"}), 0),
      Star(Sp, 0), Star(AnyChar, 0)>>,
    \* /^(.+?)\s*DAI(\d+)KAN\s*$/
    <<PlusLazy(AnyChar, 1), Star(Sp, 0), One(Lit({"k:dai"}), 0), Plus(Dg, 2), One(Lit({"k:kan"}), 0),
      Star(Sp, 0)>>,
    \* /^(.+?)\s+DAI(\d+)WA.+$/
    <<PlusLazy(AnyChar, 1), Plus(Sp, 0), One(Lit({"k:dai"}), 0), Plus(Dg, 2), One(Lit({"k:wa"}), 0),
      Plus(AnyChar, 0)>>,
    \* /^(.+?)\s*\(?Vol\.?\s*(\d+)\)?\s*$/i
    <<PlusLazy(AnyChar, 1), Star(Sp, 0), Opt(Lit({"("}), 0), One(Lit({"V", "v"}), 0),
      One(Lit({"O", "o"}), 0), One(Lit({"L", "l"}), 0), Opt(Lit({"."}), 0), Star(Sp, 0),
      Plus(Dg, 2), Opt(Lit({")"}), 0), Star(Sp, 0)>>,
    \* /^(.+?)\s+BUN-SATSU-HAN(\d+)\s*$/
    <<PlusLazy(AnyChar, 1), Plus(Sp, 0), One(Lit({"k:bun"}), 0), One(Lit({"k:satsu"}), 0),
      One(Lit({"k:han"}), 0), Plus(Dg, 2), Star(Sp, 0)>>,
    \* /^(.+?)\s*:\s*(\d+)\s+.+$/
    <<PlusLazy(AnyChar, 1), Star(Sp, 0), One(Lit({":"}), 0), Star(Sp, 0), Plus(Dg, 2), Plus(Sp, 0),
      Plus(AnyChar, 0)>>,
    \* /^(.+?)\((\d+)\)\s+\(.+\)\s*$/
    <<PlusLazy(AnyChar, 1), One(Lit({"("}), 0), Plus(Dg, 2), One(Lit({")"}), 0), Plus(Sp, 0),
      One(Lit({"("}), 0), Plus(AnyChar, 0), One(Lit({")"}), 0), Star(Sp, 0)>>,
    \* /^(.+?)\((\d+)\)\s+.+$/
    <<PlusLazy(AnyChar, 1), One(Lit({"("}), 0), Plus(Dg, 2), One(Lit({")"}), 0), Plus(Sp, 0),
      Plus(AnyChar, 0)>>,
    \* /^(.+?)\((\d+)\)\S.+$/
    <<PlusLazy(AnyChar, 1), One(Lit({"("}), 0), Plus(Dg, 2), One(Lit({")"}), 0), One(NotSp, 0),
      Plus(AnyChar, 0)>>,
    \* /^(.+?[^\d\s])(\d+)\s+.+\s*\(.+\)\s*$/
    <<PlusLazy(AnyChar, 1), One(NotDgSp, 1), Plus(Dg, 2), Plus(Sp, 0), Plus(AnyChar, 0), Star(Sp, 0),
      One(Lit({"("}), 0), Plus(AnyChar, 0), One(Lit({")"}), 0), Star(Sp, 0)>>,
    \* /^(.+?)\s*\((\d+)\)\s*$/
    <<PlusLazy(AnyChar, 1), Star(Sp, 0), One(Lit({"("}), 0), Plus(Dg, 2), One(Lit({")"}), 0),
      Star(Sp, 0)>>,
    \* /^(.+?)\s+(\d+)\s*\(.+\)\s*$/
    <<PlusLazy(AnyChar, 1), Plus(Sp, 0), Plus(Dg, 2), Star(Sp, 0), One(Lit({"("}), 0), Plus(AnyChar, 0),
      One(Lit({")"}), 0), Star(Sp, 0)>>,
    \* /^(.+?)\s+(\d+)\s*$/
    <<PlusLazy(AnyChar, 1), Plus(Sp, 0), Plus(Dg, 2), Star(Sp, 0)>>,
    \* /^(.+?\))(\d+)$/
    <<PlusLazy(AnyChar, 1), One(Lit({")"}), 1), Plus(Dg, 2)>>,
    \* /^(.+?)\s*\(?(JOU|CHUU|GE)\)?\s*$/
    <<PlusLazy(AnyChar, 1), Star(Sp, 0), Opt(Lit({"("}), 0), One(Lit({"k:jou", "k:chuu", "k:ge"}), 2),
      Opt(Lit({")"}), 0), Star(Sp, 0)>>,
    \* /^(.+?)\s+(one|two|...|ten)[NO]KAN\s*$/ with the kanji numerals and both kana "no"
    <<PlusLazy(AnyChar, 1), Plus(Sp, 0),
      One(Lit({"k:1", "k:2", "k:3", "k:4", "k:5", "k:6", "k:7", "k:8", "k:9", "k:10"}), 2),
      One(Lit({"kata:no", "hira:no"}), 0), One(Lit({"k:kan"}), 0), Star(Sp, 0)>>
>>

\* /^BAN-GAI-HEN(\d+)KAN\s+(.+)$/
prefixVolumePattern ==
    <<One(Lit({"k:ban"}), 0), One(Lit({"k:gai"}), 0), One(Lit({"k:hen"}), 0), Plus(Dg, 1),
      One(Lit({"k:kan"}), 0), Plus(Sp, 0), Plus(AnyChar, 2)>>

\* /^(\d+)[~\-]\d+\s+(.+)$/
prefixRangePattern ==
    <<Plus(Dg, 1), One(Lit({"~", "-"}), 0), Plus(Dg, 0), Plus(Sp, 0), Plus(AnyChar, 2)>>

kanjiToNumber ==
    ("k:jou" :> 1) @@ ("k:chuu" :> 2) @@ ("k:ge" :> 3) @@
    ("k:1" :> 1) @@ ("k:2" :> 2) @@ ("k:3" :> 3) @@ ("k:4" :> 4) @@ ("k:5" :> 5) @@
    ("k:6" :> 6) @@ ("k:7" :> 7) @@ ("k:8" :> 8) @@ ("k:9" :> 9) @@ ("k:10" :> 10)

RECURSIVE FirstPattern(_, _)
\* the index of the first pattern from i on that matches, 0 when none does
FirstPattern(normalizedTitle, i) ==
    IF i > Len(patterns) THEN 0
    ELSE IF RegexMatch(normalizedTitle, patterns[i]).ok THEN i
         ELSE FirstPattern(normalizedTitle, i + 1)

extractVolumeNumber(title) ==
    IF title = <<>> THEN [volumeNumber |-> NullVolume, normalizedTitle |-> <<>>]
    ELSE
    With(normalizeString(title), LAMBDA normalizedTitle :
    With(RegexMatch(normalizedTitle, prefixVolumePattern), LAMBDA prefixVolumeMatch :
    IF prefixVolumeMatch.ok
    THEN [volumeNumber |->
              ParseInt(Capture(prefixVolumeMatch, prefixVolumePattern, normalizedTitle, 1)),
          normalizedTitle |->
              Trim(Capture(prefixVolumeMatch, prefixVolumePattern, normalizedTitle, 2))]
    ELSE
    With(RegexMatch(normalizedTitle, prefixRangePattern), LAMBDA prefixRangeMatch :
    IF prefixRangeMatch.ok
    THEN [volumeNumber |->
              ParseInt(Capture(prefixRangeMatch, prefixRangePattern, normalizedTitle, 1)),
          normalizedTitle |->
              Trim(Capture(prefixRangeMatch, prefixRangePattern, normalizedTitle, 2))]
    ELSE
    With(FirstPattern(normalizedTitle, 1), LAMBDA p :
    IF p # 0
    THEN With(RegexMatch(normalizedTitle, patterns[p]), LAMBDA match :
         With(Capture(match, patterns[p], normalizedTitle, 2), LAMBDA volumeStr :
         With(Trim(Capture(match, patterns[p], normalizedTitle, 1)), LAMBDA trimmed :
         With(StripTrailing(trimmed, Whitespace \cup {":", ";", "-", "~"}), LAMBDA stripped :
             [volumeNumber |->
                  IF Len(volumeStr) = 1 /\ volumeStr[1] \in DOMAIN kanjiToNumber
                  THEN kanjiToNumber[volumeStr[1]]
                  ELSE ParseInt(volumeStr),
              normalizedTitle |-> Trim(stripped)]))))
    ELSE [volumeNumber |-> NullVolume, normalizedTitle |-> Trim(normalizedTitle)]))))

(***************************************************************************)
(* normalizeForId, generateSeriesId                                        *)
(***************************************************************************)
\* [\s\-:;·・、。,.!?'"()[\]<>]
IdStripped ==
    Whitespace \cup {"-", ":", ";", "mid:00B7", "kata:mid", "k:comma", "k:stop",
                     ",", ".", "!", "?", "'", "\"", "(", ")", "[", "]", "<", ">"}

normalizeForId(str) ==
    IF str = <<>> THEN <<>>
    ELSE With(normalizeString(str), LAMBDA normalized :
         With(ToLowerCase(normalized), LAMBDA lowered :
         With(RemoveChars(lowered, IdStripped), LAMBDA removed : Trim(removed))))

generateSeriesIdWithAuthors(normalizedTitle, authors) ==
    normalizeForId(normalizedTitle) \o authors

\* the authors are not used
generateSeriesId(normalizedTitle, authors) == normalizeForId(normalizedTitle)

(***************************************************************************)
(* The book records the callers pass.  A book is [asin, title, authors];   *)
(* an absent title or authors string is the empty string (both are falsy). *)
(* Four records share the identifier B5: a book whose metadata was edited  *)
(* between two calls.                                                      *)
(***************************************************************************)
Library == {
    [asin |-> "B1", title |-> <<"a", "(", "1", ")">>, authors |-> <<"X">>],
    [asin |-> "B2", title |-> <<"fw:A", "fw:sp", "fw:1">>, authors |-> <<"Y">>],
    [asin |-> "B3", title |-> <<"!", "(", "1", ")">>, authors |-> <<"X">>],
    [asin |-> "B4", title |-> <<"?", "(", "2", ")">>, authors |-> <<"Y">>],
    [asin |-> "B5", title |-> <<"a", " ", "V", "o", "l", ".", "2">>, authors |-> <<"X">>],
    [asin |-> "B5", title |-> <<"a">>, authors |-> <<"X">>],
    [asin |-> "B5", title |-> <<>>, authors |-> <<"X">>],
    [asin |-> "B5", title |-> <<"a", "(", "3", ")">>, authors |-> <<>>]
}

MaxBooks == 4
MaxLookupBooks == 2

Asins == {b.asin : b \in Library}

RECURSIVE BookListsOfLen(_)
\* the sequences of n books with pairwise different identifiers
BookListsOfLen(n) ==
    IF n = 0 THEN {<<>>}
    ELSE UNION {{Append(bs, b) : b \in {x \in Library : \A i \in 1..Len(bs) : bs[i].asin # x.asin}}
                : bs \in BookListsOfLen(n - 1)}

BookLists(n) == UNION {BookListsOfLen(k) : k \in 0..n}

Inputs == BookLists(MaxBooks)
LookupInputs == BookLists(MaxLookupBooks)

\* this.extractVolumeNumber(book.title) and this.generateSeriesId(normalizedTitle, book.authors)
\* of the books of the library, evaluated once
extracted == [t \in {b.title : b \in Library} |-> extractVolumeNumber(t)]
seriesIdOf == [b \in Library |-> generateSeriesId(extracted[b.title].normalizedTitle, b.authors)]

(***************************************************************************)
(* detectAndGroupSeries: the scan                                          *)
(***************************************************************************)
IsSkippedTitleOnly(book) == book.title = <<>>

\* if (!book.title || !book.authors) return;

IsSkipped(book) == book.title = <<>> \/ book.authors = <<>>

\* a book that reaches seriesMap
IsCandidate(book) == ~IsSkipped(book) /\ extracted[book.title].volumeNumber # NullVolume

\* the body of books.forEach: seriesMap (a Map, here its entries in insertion order)
\* after one more book
AddBook(seriesMap, book) ==
    IF ~IsCandidate(book) THEN seriesMap
    ELSE LET volumeNumber == extracted[book.title].volumeNumber
             normalizedTitle == extracted[book.title].normalizedTitle
             seriesId == seriesIdOf[book]
         IN With(IF \E k \in 1..Len(seriesMap) : seriesMap[k].seriesId = seriesId
                 THEN seriesMap
                 ELSE Append(seriesMap, [seriesId |-> seriesId, seriesName |-> normalizedTitle,
                                         authors |-> book.authors, volumes |-> <<>>]),
                 LAMBDA withEntry :
                     [withEntry EXCEPT
                          ![CHOOSE j \in 1..Len(withEntry) : withEntry[j].seriesId = seriesId]
                              .volumes = Append(@, [book |-> book,
                                                    volumeNumber |-> volumeNumber])])

RECURSIVE BuildSeriesMap(_, _)
\* seriesMap after books.forEach over the first n books
BuildSeriesMap(books, n) ==
    IF n = 0 THEN <<>>
    ELSE With(BuildSeriesMap(books, n - 1), LAMBDA seriesMap : AddBook(seriesMap, books[n]))

compareVolumesDescending(a, b) == b.volumeNumber - a.volumeNumber

\* the comparator of seriesData.volumes.sort
compareVolumes(a, b) ==
    IF a.volumeNumber = NullVolume THEN 1
    ELSE IF b.volumeNumber = NullVolume THEN -1
    ELSE a.volumeNumber - b.volumeNumber

\* x put behind every element that does not compare greater than it
InsertSorted(sorted, x) ==
    LET greater == {j \in 1..Len(sorted) : compareVolumes(sorted[j], x) > 0}
        pos == IF greater = {} THEN Len(sorted) + 1
               ELSE CHOOSE j \in greater : \A i \in greater : j <= i
    IN SubSeq(sorted, 1, pos - 1) \o <<x>> \o SubSeq(sorted, pos, Len(sorted))

RECURSIVE SortVolumes(_)
\* Array.prototype.sort, which is stable
SortVolumes(volumes) ==
    IF volumes = <<>> THEN <<>>
    ELSE With(SortVolumes(SubSeq(volumes, 1, Len(volumes) - 1)), LAMBDA sorted :
             InsertSorted(sorted, volumes[Len(volumes)]))

IsSeriesFromOne(seriesData) == Len(seriesData.volumes) >= 1

\* if (seriesData.volumes.length >= 2)
IsSeries(seriesData) == Len(seriesData.volumes) >= 2

RepresentativeLast(volumes) == volumes[Len(volumes)].book

\* const representativeBook = seriesData.volumes[0].book
Representative(volumes) == volumes[1].book

\* const seriesInfo = {...}
SeriesInfoOf(seriesData) ==
    With(SortVolumes(seriesData.volumes), LAMBDA volumes :
        [seriesId |-> seriesData.seriesId,
         seriesName |-> seriesData.seriesName,
         authors |-> seriesData.authors,
         volumes |-> volumes,
         representativeBook |-> Representative(volumes),
         totalVolumes |-> Len(volumes)])

RECURSIVE IndexVolumesButFirst(_, _, _, _)
IndexVolumesButFirst(map, volumes, seriesId, n) ==
    IF n <= 1 THEN map
    ELSE (volumes[n].book.asin :> seriesId) @@ IndexVolumesButFirst(map, volumes, seriesId, n - 1)

RECURSIVE IndexVolumes(_, _, _, _)
\* map after this.bookToSeriesMap.set(book.asin, seriesId) for the first n volumes
IndexVolumes(map, volumes, seriesId, n) ==
    IF n = 0 THEN map
    ELSE (volumes[n].book.asin :> seriesId) @@ IndexVolumes(map, volumes, seriesId, n - 1)

\* new Map()
EmptyMap == <<>>

RECURSIVE EmitSeries(_, _)
\* this.seriesGroups and this.bookToSeriesMap after seriesMap.forEach over the first n entries
EmitSeries(seriesMap, n) ==
    IF n = 0 THEN [seriesGroups |-> <<>>, bookToSeriesMap |-> EmptyMap]
    ELSE With(EmitSeries(seriesMap, n - 1), LAMBDA acc :
             IF IsSeries(seriesMap[n])
             THEN With(SeriesInfoOf(seriesMap[n]), LAMBDA seriesInfo :
                      [seriesGroups |-> Append(acc.seriesGroups, seriesInfo),
                       bookToSeriesMap |-> IndexVolumes(acc.bookToSeriesMap, seriesInfo.volumes,
                                                        seriesInfo.seriesId,
                                                        Len(seriesInfo.volumes))])
             ELSE acc)

\* the cache a scan of books builds
Scan(books) ==
    With(BuildSeriesMap(books, Len(books)), LAMBDA seriesMap :
        EmitSeries(seriesMap, Len(seriesMap)))

\* the scan of every input, evaluated once
scanOf == [books \in Inputs \cup LookupInputs |-> Scan(books)]

(***************************************************************************)
(* getSeriesById, getSeriesByBookAsin                                      *)
(***************************************************************************)
\* null
NullSeries == [null |-> TRUE]

\* the identifiers the callers look up: those of the library and one of no series
LookupIds == {seriesIdOf[b] : b \in Library} \cup {<<"z">>}
LookupAsins == Asins \cup {"B0"}

\* groups.find(s => s.seriesId === seriesId) || null
getSeriesById(groups, seriesId) ==
    LET found == {j \in 1..Len(groups) : groups[j].seriesId = seriesId}
    IN IF found = {} THEN NullSeries
       ELSE groups[CHOOSE j \in found : \A i \in found : j <= i]

\* an empty string is falsy
getSeriesByBookAsin(groups, map, asin) ==
    IF asin \notin DOMAIN map THEN NullSeries
    ELSE LET seriesId == map[asin]
         IN IF seriesId = <<>> THEN NullSeries ELSE getSeriesById(groups, seriesId)

(***************************************************************************)
(* The state of one SeriesManager and what its caller has observed.        *)
(***************************************************************************)
VARIABLES
    seriesGroups,       \* this.seriesGroups
    bookToSeriesMap,    \* this.bookToSeriesMap
    cacheValid,         \* this.cacheValid
    lastOp,             \* the method called last
    detectRet,          \* what the last detectAndGroupSeries call returned
    lookupArg,          \* the argument of the last lookup
    lookupRet,          \* what the last lookup returned
    scanned,            \* the last detectAndGroupSeries call scanned its books
    scannedBooks,       \* the books of the last scan since the last clearCache
    detected,           \* detectAndGroupSeries has been called since the last clearCache
    firstCall,          \* the last detectAndGroupSeries call was the first since the
                        \* construction or the last clearCache
    dropped,            \* the last clearCache discarded a non-empty cache
    otherBooks          \* the last detectAndGroupSeries call was given other books than scannedBooks

cache == <<seriesGroups, bookToSeriesMap, cacheValid>>
history == <<detectRet, lookupArg, lookupRet, scanned, scannedBooks, detected, firstCall, dropped, otherBooks>>
vars == <<seriesGroups, bookToSeriesMap, cacheValid, lastOp, detectRet, lookupArg, lookupRet, scanned,
          scannedBooks, detected, firstCall, dropped, otherBooks>>

\* constructor()
Init ==
    /\ seriesGroups = <<>>
    /\ bookToSeriesMap = EmptyMap
    /\ cacheValid = FALSE
    /\ lastOp = "constructor"
    /\ detectRet = [seriesGroups |-> <<>>, bookToSeriesMap |-> EmptyMap]
    /\ lookupArg = [none |-> TRUE]
    /\ lookupRet = NullSeries
    /\ scanned = FALSE
    /\ scannedBooks = <<>>
    /\ detected = FALSE
    /\ firstCall = FALSE
    /\ dropped = FALSE
    /\ otherBooks = FALSE

CacheHitNever == FALSE

\* if (this.cacheValid && this.seriesGroups.length > 0)

CacheHit == cacheValid /\ Len(seriesGroups) > 0

detectAndGroupSeries(books) ==
    /\ IF CacheHit
       THEN /\ UNCHANGED cache
            /\ detectRet' = [seriesGroups |-> seriesGroups, bookToSeriesMap |-> bookToSeriesMap]
            /\ scanned' = FALSE
            /\ otherBooks' = (books # scannedBooks)
            /\ UNCHANGED scannedBooks
       ELSE LET result == scanOf[books]
            IN /\ seriesGroups' = result.seriesGroups
               /\ bookToSeriesMap' = result.bookToSeriesMap
               /\ cacheValid' = TRUE
               /\ detectRet' = result
               /\ scanned' = TRUE
               /\ scannedBooks' = books
               /\ otherBooks' = FALSE
    /\ lastOp' = "detectAndGroupSeries"
    /\ detected' = TRUE
    /\ firstCall' = ~detected
    /\ UNCHANGED <<lookupArg, lookupRet, dropped>>

clearCacheKeepsIndex ==
    /\ seriesGroups' = <<>>
    /\ bookToSeriesMap' = bookToSeriesMap
    /\ cacheValid' = FALSE
    /\ lastOp' = "clearCache"
    /\ scannedBooks' = <<>>
    /\ detected' = FALSE
    /\ dropped' = (Len(seriesGroups) > 0)
    /\ UNCHANGED <<detectRet, lookupArg, lookupRet, scanned, firstCall, otherBooks>>

clearCache ==
    /\ seriesGroups' = <<>>
    /\ bookToSeriesMap' = EmptyMap
    /\ cacheValid' = FALSE
    /\ lastOp' = "clearCache"
    /\ scannedBooks' = <<>>
    /\ detected' = FALSE
    /\ dropped' = (Len(seriesGroups) > 0)
    /\ UNCHANGED <<detectRet, lookupArg, lookupRet, scanned, firstCall, otherBooks>>

GetSeriesById(seriesId) ==
    /\ lookupArg' = [seriesId |-> seriesId]
    /\ lookupRet' = getSeriesById(seriesGroups, seriesId)
    /\ lastOp' = "getSeriesById"
    /\ UNCHANGED <<cache, detectRet, scanned, scannedBooks, detected, firstCall, dropped,
                   otherBooks>>

GetSeriesByBookAsinValidates(asin) ==
    /\ lookupArg' = [asin |-> asin]
    /\ lookupRet' = getSeriesByBookAsin(seriesGroups, bookToSeriesMap, asin)
    /\ lastOp' = "getSeriesByBookAsin"
    /\ cacheValid' = TRUE
    /\ UNCHANGED <<seriesGroups, bookToSeriesMap, detectRet, scanned, scannedBooks, detected,
                   firstCall, dropped, otherBooks>>

GetSeriesByBookAsin(asin) ==
    /\ lookupArg' = [asin |-> asin]
    /\ lookupRet' = getSeriesByBookAsin(seriesGroups, bookToSeriesMap, asin)
    /\ lastOp' = "getSeriesByBookAsin"
    /\ UNCHANGED <<cache, detectRet, scanned, scannedBooks, detected, firstCall, dropped,
                   otherBooks>>

\* detection and invalidation
Next ==
    \/ \E books \in Inputs : detectAndGroupSeries(books)
    \/ clearCache

Spec == Init /\ [][Next]_vars

\* detection, invalidation and the two lookups
NextLookup ==
    \/ \E books \in LookupInputs : detectAndGroupSeries(books)
    \/ clearCache
    \/ \E seriesId \in LookupIds : GetSeriesById(seriesId)
    \/ \E asin \in LookupAsins : GetSeriesByBookAsin(asin)

SpecLookup == Init /\ [][NextLookup]_vars

(***************************************************************************)
(* Properties.                                                             *)
(***************************************************************************)
Range(seq) == {seq[i] : i \in DOMAIN seq}
VolumeBooks(series) == {series.volumes[i].book : i \in DOMAIN series.volumes}
CachedSeries == Range(seriesGroups)
\* the position of a book in an input
Pos(books, b) == CHOOSE i \in DOMAIN books : books[i] = b
\* normalizeForId of the series name extracted from the title of a book
NameId(b) == normalizeForId(extracted[b.title].normalizedTitle)
NameIdOf == [b \in Library |-> NameId(b)]
DetectCall == "detectAndGroupSeries"
Lookups == {"getSeriesById", "getSeriesByBookAsin"}

\* C1, as stated: a detectAndGroupSeries call that follows an earlier one with no
\* clearCache in between returns the same series list and index as the earlier
\* call and does not scan, whatever its books.
C1_MemoAfterAnyCall ==
    [][(lastOp' = DetectCall /\ detected) => (detectRet' = detectRet /\ ~scanned')]_vars

\* C1, amended: a detectAndGroupSeries call that follows an earlier one which
\* returned a non-empty series list, with no clearCache in between, returns the
\* same series list and index as the earlier call, does not scan and leaves the
\* cache as it is, whatever its books.
C1_MemoAfterNonEmpty ==
    [][(lastOp' = DetectCall /\ detected /\ Len(detectRet.seriesGroups) > 0)
          => (detectRet' = detectRet /\ ~scanned' /\ UNCHANGED cache)]_vars

\* a call answered from the cache although its books are not those the cache was built from
C1_Witness ==
    /\ lastOp = DetectCall /\ ~scanned /\ otherBooks
    /\ Len(detectRet.seriesGroups) > 0

\* C2: clearCache leaves the series list and the index empty and the flag false;
\* the first detectAndGroupSeries call after it scans, and its result is the
\* grouping of the books of that call alone: every book of a series and every
\* key of the index is one of these books.
C2_ResetForcesRecomputation ==
    /\ lastOp = "clearCache" =>
           seriesGroups = <<>> /\ DOMAIN bookToSeriesMap = {} /\ ~cacheValid
    /\ (lastOp = DetectCall /\ firstCall) =>
           /\ scanned
           /\ detectRet = [seriesGroups |-> seriesGroups, bookToSeriesMap |-> bookToSeriesMap]
           /\ detectRet = Scan(scannedBooks)
           /\ \A series \in CachedSeries : VolumeBooks(series) \subseteq Range(scannedBooks)
           /\ DOMAIN bookToSeriesMap \subseteq {b.asin : b \in Range(scannedBooks)}

\* the first call after a clearCache that discarded a non-empty cache, finding a series
C2_Witness ==
    lastOp = DetectCall /\ firstCall /\ dropped /\ Len(seriesGroups) > 0

\* C3: the index and the series list agree: every key of the index is a book
\* of exactly one cached series, whose seriesId is the mapped value, and every
\* book of a cached series is a key of the index.
C3_IndexAgreesWithList ==
    /\ \A asin \in DOMAIN bookToSeriesMap :
           LET holders == {j \in DOMAIN seriesGroups :
                               \E b \in VolumeBooks(seriesGroups[j]) : b.asin = asin}
           IN /\ Cardinality(holders) = 1
              /\ \A j \in holders : seriesGroups[j].seriesId = bookToSeriesMap[asin]
    /\ \A series \in CachedSeries : \A b \in VolumeBooks(series) :
           b.asin \in DOMAIN bookToSeriesMap

\* two cached series and an index over their four books
C3_Witness ==
    Len(seriesGroups) = 2 /\ Cardinality(DOMAIN bookToSeriesMap) = 4

\* C4: every cached series has totalVolumes = volumes.length >= 2, and no two
\* cached series have the same seriesId.
C4_AtLeastTwoVolumesUniqueIds ==
    /\ \A series \in CachedSeries :
           series.totalVolumes = Len(series.volumes) /\ series.totalVolumes >= 2
    /\ \A i, j \in DOMAIN seriesGroups :
           seriesGroups[i].seriesId = seriesGroups[j].seriesId => i = j

\* a series of two volumes next to a series with another identifier
C4_Witness ==
    /\ \E i, j \in DOMAIN seriesGroups :
           seriesGroups[i].totalVolumes = 2 /\ seriesGroups[j].seriesId # seriesGroups[i].seriesId
    /\ lastOp = DetectCall

\* C5: the volumes of a series are non-decreasing by volumeNumber, every entry
\* has an integer volumeNumber, and entries with equal volume numbers are in the
\* order of the input.
C5_VolumesSortedStable ==
    \A series \in CachedSeries : \A i, k \in DOMAIN series.volumes :
        /\ series.volumes[i].volumeNumber \in Nat
        /\ i < k => series.volumes[i].volumeNumber <= series.volumes[k].volumeNumber
        /\ (i < k /\ series.volumes[i].volumeNumber = series.volumes[k].volumeNumber)
               => Pos(scannedBooks, series.volumes[i].book)
                      < Pos(scannedBooks, series.volumes[k].book)

\* a series of three volumes, two of them with the same number, whose last
\* volume came first in the input
C5_Witness ==
    \E series \in CachedSeries :
        /\ Len(series.volumes) = 3
        /\ series.volumes[1].volumeNumber = series.volumes[2].volumeNumber
        /\ series.volumes[2].volumeNumber < series.volumes[3].volumeNumber
        /\ scannedBooks[1] = series.volumes[3].book

\* a book with a title, authors and a volume number that shares its series
\* identifier with another such book of the input
Qualifies(b, books) ==
    /\ b.title # <<>> /\ b.authors # <<>>
    /\ extracted[b.title].volumeNumber # NullVolume
    /\ \E o \in Range(books) :
           /\ o # b
           /\ o.title # <<>> /\ o.authors # <<>>
           /\ extracted[o.title].volumeNumber # NullVolume
           /\ seriesIdOf[o] = seriesIdOf[b]

\* C6: after a call that scanned, a book of the input is in some series and in
\* the index exactly if it has a title, authors and a volume number and another
\* such book of the input has the same series identifier.
C6_OutputCoversExactlySeriesBooks ==
    (lastOp = DetectCall /\ scanned) =>
        \A b \in Range(scannedBooks) :
            /\ (\E series \in CachedSeries : b \in VolumeBooks(series))
                   <=> Qualifies(b, scannedBooks)
            /\ b.asin \in DOMAIN bookToSeriesMap <=> Qualifies(b, scannedBooks)

\* an input with two books of one series, a candidate alone in its bucket and a
\* book without authors
C6_Witness ==
    /\ lastOp = DetectCall /\ scanned
    /\ \E b \in Range(scannedBooks) : Qualifies(b, scannedBooks)
    /\ \E b \in Range(scannedBooks) : IsCandidate(b) /\ ~Qualifies(b, scannedBooks)
    /\ \E b \in Range(scannedBooks) : b.title # <<>> /\ b.authors = <<>>

\* C7: two candidates of the input whose extracted names normalise to the same
\* identifier are in the same series, whatever their authors, and the authors of
\* that series are those of the first such candidate of the input.
C7_IdIgnoresAuthors ==
    (lastOp = DetectCall /\ scanned) =>
        \A i, j \in DOMAIN scannedBooks :
            LET a == scannedBooks[i]
                b == scannedBooks[j]
            IN (i < j /\ IsCandidate(a) /\ IsCandidate(b) /\ NameIdOf[a] = NameIdOf[b]) =>
                   \E series \in CachedSeries :
                       /\ {a, b} \subseteq VolumeBooks(series)
                       /\ \E k \in DOMAIN scannedBooks :
                              /\ IsCandidate(scannedBooks[k])
                              /\ NameIdOf[scannedBooks[k]] = NameIdOf[a]
                              /\ \A h \in 1..(k - 1) :
                                     ~(IsCandidate(scannedBooks[h])
                                       /\ NameIdOf[scannedBooks[h]] = NameIdOf[a])
                              /\ series.authors = scannedBooks[k].authors

\* a series whose volumes have different authors strings
C7_Witness ==
    /\ lastOp = DetectCall /\ scanned
    /\ \E series \in CachedSeries : \E a, b \in VolumeBooks(series) : a.authors # b.authors

C9_LookupsArePure ==
    /\ [][lastOp' \in Lookups => UNCHANGED cache]_vars
    /\ [](lastOp = "getSeriesById" =>
              ((\A series \in CachedSeries : series.seriesId # lookupArg.seriesId)
                   => lookupRet = NullSeries))
    /\ [](lastOp = "getSeriesByBookAsin" =>
              ((\A series \in CachedSeries : \A b \in VolumeBooks(series) :
                    b.asin # lookupArg.asin)
                   => lookupRet = NullSeries))

\* a lookup, in a non-empty cache, of a book that is in no series
C9_Witness ==
    /\ lastOp = "getSeriesByBookAsin" /\ lookupRet = NullSeries
    /\ Len(seriesGroups) > 0 /\ cacheValid
    /\ lookupArg.asin \notin DOMAIN bookToSeriesMap

\* C10: getSeriesByBookAsin of a book of a cached series returns that series,
\* and getSeriesById of the identifier of a cached series returns that series.
C10_LookupRoundTrip ==
    /\ lastOp = "getSeriesByBookAsin" =>
           \A series \in CachedSeries :
               (\E b \in VolumeBooks(series) : b.asin = lookupArg.asin) => lookupRet = series
    /\ lastOp = "getSeriesById" =>
           \A series \in CachedSeries :
               series.seriesId = lookupArg.seriesId => lookupRet = series

=============================================================================
